---- MODULE Spec2Model ----
(***************************************************************************)
(* Model of Assignment-5/secure_login_system.py: class LoginSystem, the    *)
(* credential store it keeps in the SQLite table `users`, and the register *)
(* and login calls made against it by several callers (connections).       *)
(*                                                                         *)
(* Strings are sequences of one-character strings.  Time is counted in     *)
(* minutes.  Every SQL statement is one atomic step: the sqlite3 module    *)
(* runs a SELECT in autocommit mode and opens a transaction only at the    *)
(* first UPDATE/INSERT, which is committed when the `with` block is left   *)
(* (or by conn.commit()), so a SELECT and the UPDATE that follows it are   *)
(* two separate steps between which other connections may commit.          *)
(***************************************************************************)
EXTENDS Integers, Sequences, FiniteSets, TLC

VARIABLES
    environ,    \* what the process is installed with: the PASSWORD_PEPPER
                \* variable (<<>> if unset), the bcrypt build, the storage
    pure,       \* the frame of a direct call of one of the helper methods
    now,        \* datetime.now(), in minutes
    pepper,     \* self.pepper
    users,      \* table users: username -> row, or NoRow; a timestamp
                \* column holds <<t>>, or <<>> for NULL
    pc,         \* position of each caller inside register / login
    op,         \* the call a caller is in: "none", "register", "login"
    username,   \* argument of the call
    password,   \* argument of the call
    lock_row,   \* `result` of _is_account_locked (line 94)
    row,        \* `result` of login (line 153)
    ret,        \* the (success, message) tuple returned by the call
    hashed,     \* rounds of every bcrypt computation made by the call
    wrote,      \* number of UPDATE/INSERT statements the call has committed
    streak,     \* per username: admitted failed logins since the last reset
    seen        \* per username: log of the variants its login calls returned

vars == <<environ, pure, now, pepper, users, pc, op, username, password,
          lock_row, row, ret, hashed, wrote, streak, seen>>

-----------------------------------------------------------------------------
(* Bounds of the model *)

MaxTime == 20
TickMinutes == 5
MaxSeen == 3

Procs == {"c1", "c2"}
SeqProcs == {"c1"}

-----------------------------------------------------------------------------
(* Configuration set in __init__ *)

max_attempts == 3
lockout_duration == 15
min_password_length == 12
hash_rounds == 12
gensalt_default_rounds == 12

\* bcrypt reads no more than this many bytes of the password it is given
bcrypt_max_bytes == 72

-----------------------------------------------------------------------------
(* Characters *)

UpperSeq == <<"A","B","C","D","E","F","G","H","I","J","K","L","M",
              "N","O","P","Q","R","S","T","U","V","W","X","Y","Z">>
LowerSeq == <<"a","b","c","d","e","f","g","h","i","j","k","l","m",
              "n","o","p","q","r","s","t","u","v","w","x","y","z">>
DigitSeq == <<"0","1","2","3","4","5","6","7","8","9">>

SeqRange(s) == {s[i] : i \in 1..Len(s)}

UpperChars == SeqRange(UpperSeq)
LowerChars == SeqRange(LowerSeq)
DigitChars == SeqRange(DigitSeq)
SpecialChars == {"!","@","#","$","%","^","&","*","(",")",",",".","?",
                 "\"",":","{","}","|","<",">"}
UsernameChars == UpperChars \cup LowerChars \cup DigitChars \cup {"_","-"}

\* str.lower() on one character
lower_char(c) ==
    IF c \in UpperChars
    THEN LowerSeq[CHOOSE i \in 1..Len(UpperSeq) : UpperSeq[i] = c]
    ELSE c

\* str.lower()
lower(s) == [i \in 1..Len(s) |-> lower_char(s[i])]

\* `pattern in s`
contains(s, pattern) ==
    \E i \in 1..(Len(s) - Len(pattern) + 1) :
        SubSeq(s, i, i + Len(pattern) - 1) = pattern

\* re.search(r'[...]', s) for a character class
search_class(class, s) == \E i \in 1..Len(s) : s[i] \in class

BannedPatterns == {<<"p","a","s","s","w","o","r","d">>, <<"1","2","3">>,
                   <<"q","w","e","r","t","y">>, <<"a","d","m","i","n">>}

\* re.match(r'^[a-zA-Z0-9_-]+$', s): `$` also matches before a final newline
username_match(s) ==
    LET body == IF Len(s) > 0 /\ s[Len(s)] = "\n"
                THEN SubSeq(s, 1, Len(s) - 1) ELSE s
    IN  /\ Len(body) > 0
        /\ \A i \in 1..Len(body) : body[i] \in UsernameChars

-----------------------------------------------------------------------------
(* Messages returned by register and login *)

MsgTooShort == "Password must be at least 12 characters long"
MsgNoUpper == "Password must contain at least one uppercase letter"
MsgNoLower == "Password must contain at least one lowercase letter"
MsgNoDigit == "Password must contain at least one number"
MsgNoSpecial == "Password must contain at least one special character"
MsgBanned == "Password contains common patterns that are not allowed"
MsgStrong == "Password meets security requirements"
MsgUserShort == "Username must be at least 3 characters long"
MsgUserChars == "Username can only contain letters, numbers, underscores, and hyphens"
MsgRegistered == "Registration successful"
MsgExists == "Username already exists"
MsgIsLocked == "Account is locked. Try again in {} minutes"
MsgNowLocked == "Account locked due to too many failed attempts. Try again in {} minutes"
MsgInvalid == "Invalid username or password"
MsgLoginOk == "Login successful"
MsgLoginError == "Login failed due to system error"
MsgRegisterError == "Registration failed due to system error"

\* The outcome the caller of login observes
variant(r) ==
    IF r[1] THEN "Ok"
    ELSE IF r[2] = MsgInvalid THEN "InvalidCredentials"
    ELSE IF r[2] \in {MsgIsLocked, MsgNowLocked} THEN "AccountLocked"
    ELSE "SystemError"

-----------------------------------------------------------------------------
(* Password hashing *)

\* bcrypt.gensalt(): the salts the generator may return
Salts == {"salt1"}

\* The bcrypt builds the import may resolve to: up to 4.x hashpw silently
\* truncates a password longer than 72 bytes, from 5.0 it raises ValueError
BcryptBuilds == {"truncates", "raises"}

\* The bytes of the password that bcrypt hashes
truncate(data) ==
    IF Len(data) > bcrypt_max_bytes
    THEN SubSeq(data, 1, bcrypt_max_bytes)
    ELSE data

\* bcrypt.hashpw(data, salt): the result embeds the salt and the rounds
hashpw(data, salt, rounds) ==
    [salt |-> salt, rounds |-> rounds, key |-> truncate(data)]

\* The exception bcrypt.hashpw(data, salt) raises, "" if it returns
hashpw_raises(build, data) ==
    IF build = "raises" /\ Len(data) > bcrypt_max_bytes
    THEN "ValueError"
    ELSE ""

\* A value of the column password_hash is a bytes object
is_bytes(h) == "salt" \in DOMAIN h \/ "malformed" \in DOMAIN h

\* bcrypt can parse the salt and the rounds out of the value
has_salt(h) == "salt" \in DOMAIN h

\* bcrypt.checkpw(data, hashed): hash again with the embedded salt and rounds
checkpw(data, h) == hashpw(data, h.salt, h.rounds) = h

\* The exception bcrypt.checkpw(data, hashed) raises, "" if it returns
checkpw_raises(build, data, h) ==
    IF ~is_bytes(h) THEN "TypeError"
    ELSE IF hashpw_raises(build, data) # "" THEN hashpw_raises(build, data)
    ELSE IF ~has_salt(h) THEN "ValueError"
    ELSE ""

\* A hash of the password alone
hash_password_no_pepper(pw, pep, salt) == hashpw(pw, salt, hash_rounds)

hash_password(pw, pep, salt) == hashpw(pw \o pep, salt, hash_rounds)

\* A verification that leaves the pepper out
verify_password_no_pepper(pw, pep, h) == checkpw(pw, h)

\* _verify_password when bcrypt.checkpw returns
verify_password(pw, pep, h) == checkpw(pw \o pep, h)

\* _verify_password with its try/except: the value it returns, or the
\* exception that escapes it
verify_password_outcome(build, pw, pep, h) ==
    LET raised == checkpw_raises(build, pw \o pep, h)
    IN  IF raised = ""
        THEN [value |-> verify_password(pw, pep, h), raised |-> ""]
        ELSE IF raised = "ValueError"
        THEN [value |-> FALSE, raised |-> ""]
        ELSE [value |-> FALSE, raised |-> raised]

\* The strength check refusing a password of exactly the minimum length
validate_password_strength_inclusive(pw) ==
    IF Len(pw) <= min_password_length THEN <<FALSE, MsgTooShort>>
    ELSE IF ~search_class(UpperChars, pw) THEN <<FALSE, MsgNoUpper>>
    ELSE IF ~search_class(LowerChars, pw) THEN <<FALSE, MsgNoLower>>
    ELSE IF ~search_class(DigitChars, pw) THEN <<FALSE, MsgNoDigit>>
    ELSE IF ~search_class(SpecialChars, pw) THEN <<FALSE, MsgNoSpecial>>
    ELSE LET lowered == lower(pw)
         IN  IF \E pat \in BannedPatterns : contains(lowered, pat)
             THEN <<FALSE, MsgBanned>>
             ELSE <<TRUE, MsgStrong>>

\* The strength check with the two letter cases looked for in the other order
validate_password_strength_swapped(pw) ==
    IF Len(pw) < min_password_length THEN <<FALSE, MsgTooShort>>
    ELSE IF ~search_class(LowerChars, pw) THEN <<FALSE, MsgNoLower>>
    ELSE IF ~search_class(UpperChars, pw) THEN <<FALSE, MsgNoUpper>>
    ELSE IF ~search_class(DigitChars, pw) THEN <<FALSE, MsgNoDigit>>
    ELSE IF ~search_class(SpecialChars, pw) THEN <<FALSE, MsgNoSpecial>>
    ELSE LET lowered == lower(pw)
         IN  IF \E pat \in BannedPatterns : contains(lowered, pat)
             THEN <<FALSE, MsgBanned>>
             ELSE <<TRUE, MsgStrong>>

validate_password_strength(pw) ==
    IF Len(pw) < min_password_length THEN <<FALSE, MsgTooShort>>
    ELSE IF ~search_class(UpperChars, pw) THEN <<FALSE, MsgNoUpper>>
    ELSE IF ~search_class(LowerChars, pw) THEN <<FALSE, MsgNoLower>>
    ELSE IF ~search_class(DigitChars, pw) THEN <<FALSE, MsgNoDigit>>
    ELSE IF ~search_class(SpecialChars, pw) THEN <<FALSE, MsgNoSpecial>>
    ELSE LET lowered == lower(pw)
         IN  IF \E pat \in BannedPatterns : contains(lowered, pat)
             THEN <<FALSE, MsgBanned>>
             ELSE <<TRUE, MsgStrong>>

-----------------------------------------------------------------------------
(* Inputs *)

Alice == <<"a","l","i","c","e">>
Bob == <<"b","o","b">>
Al == <<"a","l">>

PwStrong == <<"S","t","r","0","n","g","!","P","a","s","s","w","0","r","d">>
PwOther == <<"W","r","0","n","g","!","P","a","s","s","w","0","r","d">>
PwShort == <<"S","h","0","r","t","!","P","a","s","s","w">>

EnvPepper == <<"p","e","p">>

\* Usernames at the edges of what register accepts
Name64 == [i \in 1..64 |-> "u"]
Name65 == [i \in 1..65 |-> "u"]
NameBlank == <<"a"," ","b">>
NameNewline == <<"b","o","b","\n">>
Pw12 == <<"S","h","0","r","t","!","P","a","s","s","w","d">>

Usernames == {Alice, Bob}
RegisterUsernames == {Alice, Al}
RegisterPasswords == {PwStrong, PwOther, PwShort}
LoginPasswords == {PwStrong, PwOther}
Peppers == {EnvPepper}
BoundaryUsernames == {<<>>, <<"a">>, Al, Bob, Name64, Name65, NameBlank,
                      NameNewline}
RegUsernames == RegisterUsernames \cup BoundaryUsernames
RegPasswords == {PwStrong, PwShort, Pw12}

\* secrets.token_hex(32): 64 hexadecimal characters
token_hex_chars == 64
Tokens == {[i \in 1..token_hex_chars |-> "a"],
           [i \in 1..token_hex_chars |-> "b"]}

\* os.getenv('PASSWORD_PEPPER', secrets.token_hex(32))
getenv_pepper(env, token) ==
    IF env.PASSWORD_PEPPER # <<>> THEN env.PASSWORD_PEPPER[1] ELSE token

\* Installations with the pepper configured
Environs ==
    {[PASSWORD_PEPPER |-> <<k>>, bcrypt |-> "truncates", storage |-> "ok"] :
        k \in Peppers}

\* The checks of register on its inputs, evaluated once per input
username_ok == [u \in RegUsernames |-> Len(u) >= 3 /\ username_match(u)]
password_strength ==
    [pw \in RegisterPasswords \cup RegPasswords |->
        validate_password_strength(pw)]

-----------------------------------------------------------------------------
(* The table `users` *)

NoRow == [absent |-> TRUE]
Null == <<>>
Unread == [unread |-> TRUE]
NoRet == <<FALSE, "">>
NoLog == <<"NoLog">>
NoCall == [fn |-> "none"]

\* INSERT INTO users (username, password_hash): the column defaults
new_row(h) == [password_hash |-> h, failed_attempts |-> 0, locked_until |-> Null]

\* A caller is between two calls
Free(p) == pc[p] \in {"idle", "done"}

Init ==
    /\ environ \in Environs
    /\ pure = NoCall
    /\ now = 0
    /\ pepper \in {getenv_pepper(environ, token) : token \in Tokens}
    /\ users = [u \in Usernames \cup RegisterUsernames |-> NoRow]
    /\ pc = [p \in Procs |-> "idle"]
    /\ op = [p \in Procs |-> "none"]
    /\ username = [p \in Procs |-> <<>>]
    /\ password = [p \in Procs |-> <<>>]
    /\ lock_row = [p \in Procs |-> Unread]
    /\ row = [p \in Procs |-> Unread]
    /\ ret = [p \in Procs |-> NoRet]
    /\ hashed = [p \in Procs |-> <<>>]
    /\ wrote = [p \in Procs |-> 0]
    /\ streak = [u \in Usernames \cup RegisterUsernames |-> 0]
    /\ seen = [u \in Usernames \cup RegisterUsernames |-> NoLog]


\* The same state with the log of returned variants switched on
InitLog ==
    /\ environ \in Environs
    /\ pure = NoCall
    /\ now = 0
    /\ pepper \in {getenv_pepper(environ, token) : token \in Tokens}
    /\ users = [u \in Usernames \cup RegisterUsernames |-> NoRow]
    /\ pc = [p \in Procs |-> "idle"]
    /\ op = [p \in Procs |-> "none"]
    /\ username = [p \in Procs |-> <<>>]
    /\ password = [p \in Procs |-> <<>>]
    /\ lock_row = [p \in Procs |-> Unread]
    /\ row = [p \in Procs |-> Unread]
    /\ ret = [p \in Procs |-> NoRet]
    /\ hashed = [p \in Procs |-> <<>>]
    /\ wrote = [p \in Procs |-> 0]
    /\ streak = [u \in Usernames \cup RegisterUsernames |-> 0]
    /\ seen = [u \in Usernames \cup RegisterUsernames |-> <<>>]

\* Installations of every kind: PASSWORD_PEPPER set or not, either bcrypt
AllEnvirons ==
    {[PASSWORD_PEPPER |-> k, bcrypt |-> b, storage |-> "ok"] :
        k \in {<<>>} \cup {<<x>> : x \in Peppers}, b \in BcryptBuilds}

\* The state after construction in any installation
InitRestart ==
    /\ environ \in AllEnvirons
    /\ pure = NoCall
    /\ now = 0
    /\ pepper \in {getenv_pepper(environ, token) : token \in Tokens}
    /\ users = [u \in Usernames \cup RegisterUsernames |-> NoRow]
    /\ pc = [p \in Procs |-> "idle"]
    /\ op = [p \in Procs |-> "none"]
    /\ username = [p \in Procs |-> <<>>]
    /\ password = [p \in Procs |-> <<>>]
    /\ lock_row = [p \in Procs |-> Unread]
    /\ row = [p \in Procs |-> Unread]
    /\ ret = [p \in Procs |-> NoRet]
    /\ hashed = [p \in Procs |-> <<>>]
    /\ wrote = [p \in Procs |-> 0]
    /\ streak = [u \in Usernames \cup RegisterUsernames |-> 0]
    /\ seen = [u \in Usernames \cup RegisterUsernames |-> NoLog]

\* The state after construction, the table ready for every username that
\* register is tried with
InitReg ==
    /\ environ \in Environs
    /\ pure = NoCall
    /\ now = 0
    /\ pepper \in {getenv_pepper(environ, token) : token \in Tokens}
    /\ users = [u \in Usernames \cup RegUsernames |-> NoRow]
    /\ pc = [p \in Procs |-> "idle"]
    /\ op = [p \in Procs |-> "none"]
    /\ username = [p \in Procs |-> <<>>]
    /\ password = [p \in Procs |-> <<>>]
    /\ lock_row = [p \in Procs |-> Unread]
    /\ row = [p \in Procs |-> Unread]
    /\ ret = [p \in Procs |-> NoRet]
    /\ hashed = [p \in Procs |-> <<>>]
    /\ wrote = [p \in Procs |-> 0]
    /\ streak = [u \in Usernames \cup RegUsernames |-> 0]
    /\ seen = [u \in Usernames \cup RegUsernames |-> NoLog]

\* The state after construction but for the installation and the frame of
\* a direct call
Constructed ==
    /\ now = 0
    /\ pepper \in {getenv_pepper(environ, token) : token \in Tokens}
    /\ users = [u \in Usernames \cup RegisterUsernames |-> NoRow]
    /\ pc = [p \in Procs |-> "idle"]
    /\ op = [p \in Procs |-> "none"]
    /\ username = [p \in Procs |-> <<>>]
    /\ password = [p \in Procs |-> <<>>]
    /\ lock_row = [p \in Procs |-> Unread]
    /\ row = [p \in Procs |-> Unread]
    /\ ret = [p \in Procs |-> NoRet]
    /\ hashed = [p \in Procs |-> <<>>]
    /\ wrote = [p \in Procs |-> 0]
    /\ streak = [u \in Usernames \cup RegisterUsernames |-> 0]
    /\ seen = [u \in Usernames \cup RegisterUsernames |-> NoLog]

\* Passwords put together from a letter of each class or none, a banned
\* word or none, and padding up to the lengths around the minimum
Dashes(n) == [i \in 1..n |-> "-"]
BannedWords == {<<>>, <<"P","a","s","s","W","o","r","d">>, <<"1","2","3">>,
                <<"Q","W","E","R","T","Y">>, <<"A","d","m","i","n">>}
Paddings == {0, 7, 8, min_password_length}
StrengthInputs ==
    {u \o l \o d \o s \o b \o Dashes(n) :
        u \in {<<>>, <<"Z">>}, l \in {<<>>, <<"z">>}, d \in {<<>>, <<"7">>},
        s \in {<<>>, <<"!">>}, b \in BannedWords, n \in Paddings}

\* _validate_password_strength is about to be called with one of them
InitValidate ==
    /\ environ \in Environs
    /\ pure \in {[fn |-> "validate", pc |-> "call", password |-> pw,
                  ret |-> NoRet] : pw \in StrengthInputs}
    /\ Constructed

\* Passwords up to and beyond what bcrypt reads: two of 73 characters that
\* differ in the last one, and the 72 characters they share
Long72 == PwStrong \o Dashes(bcrypt_max_bytes - Len(PwStrong))
Long73x == Long72 \o <<"x">>
Long73y == Long72 \o <<"y">>
HashPasswords == {PwStrong, PwOther, Long72, Long73x, Long73y}

\* Values of the column password_hash that are no bcrypt hash: bytes that do
\* not parse, a hash with a piece cut off, a str
MalformedHashes ==
    {[malformed |-> "format"],
     [salt |-> "salt1", rounds |-> hash_rounds, key |-> PwStrong \o EnvPepper,
      cut |-> TRUE],
     [wrong_type |-> "str"]}

NoOutcome == [value |-> FALSE, raised |-> "pending"]

\* _hash_password is about to be called and its result verified, or
\* _verify_password is about to be called on a stored value
InitHash ==
    /\ environ \in AllEnvirons
    /\ pure \in {[fn |-> "hash", pc |-> "call", password |-> p1,
                  attempt |-> p2, stored |-> Unread, ret |-> NoOutcome] :
                    p1 \in HashPasswords, p2 \in HashPasswords}
           \cup {[fn |-> "verify", pc |-> "stored", password |-> <<>>,
                  attempt |-> p2, stored |-> h, ret |-> NoOutcome] :
                    p2 \in HashPasswords, h \in MalformedHashes}
    /\ Constructed

\* What an observer of the responses for username u has recorded
observe(u, r) ==
    IF seen[u] = NoLog \/ Len(seen[u]) >= MaxSeen
    THEN seen
    ELSE [seen EXCEPT ![u] = Append(@, variant(r))]

-----------------------------------------------------------------------------
(* register, lines 112-137.  The only statement that touches the table is  *)
(* the INSERT, so the call is one step.                                    *)

\* register with the UNIQUE constraint consulted before the strength check
register_ret_unique_first(u, strength, raised, taken) ==
    IF Len(u) < 3 THEN <<FALSE, MsgUserShort>>
    ELSE IF ~username_match(u) THEN <<FALSE, MsgUserChars>>
    ELSE IF taken THEN <<FALSE, MsgExists>>
    ELSE IF ~strength[1] THEN strength
    ELSE IF raised # "" THEN <<FALSE, MsgRegisterError>>
    ELSE <<TRUE, MsgRegistered>>

\* register reporting success though the INSERT was refused
register_ret_taken_ok(u, strength, raised, taken) ==
    IF Len(u) < 3 THEN <<FALSE, MsgUserShort>>
    ELSE IF ~username_match(u) THEN <<FALSE, MsgUserChars>>
    ELSE IF ~strength[1] THEN strength
    ELSE IF raised # "" THEN <<FALSE, MsgRegisterError>>
    ELSE <<TRUE, MsgRegistered>>

\* The tuple register returns: strength is the result of the strength check,
\* raised the exception of the hashing or of the storage, taken whether the
\* INSERT hits the UNIQUE constraint
register_ret(u, strength, raised, taken) ==
    IF Len(u) < 3 THEN <<FALSE, MsgUserShort>>
    ELSE IF ~username_match(u) THEN <<FALSE, MsgUserChars>>
    ELSE IF ~strength[1] THEN strength
    ELSE IF raised # "" THEN <<FALSE, MsgRegisterError>>
    ELSE IF taken THEN <<FALSE, MsgExists>>
    ELSE <<TRUE, MsgRegistered>>

\* An INSERT that replaces the row of a username already there
integrity_error_never(table, u) == FALSE

\* sqlite3.IntegrityError: the INSERT of lines 128-131 meets the UNIQUE
\* constraint on username of line 30
integrity_error(table, u) == table[u] # NoRow

register(p, u, pw) ==
    /\ Free(p)
    /\ LET strength == password_strength[pw]
           valid == username_ok[u] /\ strength[1]
           raised == IF hashpw_raises(environ.bcrypt, pw \o pepper) # ""
                     THEN hashpw_raises(environ.bcrypt, pw \o pepper)
                     ELSE IF environ.storage # "ok" THEN "OperationalError"
                     ELSE ""
           taken == integrity_error(users, u)
           inserted == valid /\ raised = "" /\ ~taken
       IN  /\ ret' = [ret EXCEPT ![p] =
                        register_ret(u, strength, raised, taken)]
           /\ hashed' = [hashed EXCEPT ![p] =
                           IF valid /\ raised = "" THEN <<hash_rounds>>
                           ELSE <<>>]
           /\ wrote' = [wrote EXCEPT ![p] = IF inserted THEN 1 ELSE 0]
           /\ \E salt \in Salts :
                users' = IF inserted
                         THEN [users EXCEPT ![u] =
                                 new_row(hash_password(pw, pepper, salt))]
                         ELSE users
           /\ streak' = IF inserted THEN [streak EXCEPT ![u] = 0] ELSE streak
    /\ pc' = [pc EXCEPT ![p] = "done"]
    /\ op' = [op EXCEPT ![p] = "register"]
    /\ username' = [username EXCEPT ![p] = u]
    /\ password' = [password EXCEPT ![p] = pw]
    /\ UNCHANGED <<environ, pure, now, pepper, lock_row, row, seen>>

-----------------------------------------------------------------------------
(* login, lines 139-194 *)

\* The lock test holding the account for the instant of locked_until too
lock_active_inclusive(r) ==
    r # NoRow /\ r.locked_until # Null /\ r.locked_until[1] >= now

\* The lock test with the comparison turned round
lock_active_reversed(r) ==
    r # NoRow /\ r.locked_until # Null /\ r.locked_until[1] < now

\* locked_until and datetime.fromisoformat(locked_until) > datetime.now()
lock_active(r) ==
    r # NoRow /\ r.locked_until # Null /\ r.locked_until[1] > now

\* elif locked_until
lock_expired(r) ==
    r # NoRow /\ r.locked_until # Null /\ ~(r.locked_until[1] > now)

\* `return`: the call of p ends with the tuple r and its locals are gone
\* (the arguments stay on record as the call that ret answers)
return(p, u, r) ==
    /\ pc' = [pc EXCEPT ![p] = "done"]
    /\ ret' = [ret EXCEPT ![p] = r]
    /\ seen' = observe(u, r)
    /\ lock_row' = [lock_row EXCEPT ![p] = Unread]
    /\ row' = [row EXCEPT ![p] = Unread]

\* login is called and runs _is_account_locked up to the test of the row it
\* selected: lines 139-145 and 88-101, 110
login(p, u, pw) ==
    /\ Free(p)
    /\ environ.storage # "failing"
    /\ op' = [op EXCEPT ![p] = "login"]
    /\ username' = [username EXCEPT ![p] = u]
    /\ password' = [password EXCEPT ![p] = pw]
    /\ hashed' = [hashed EXCEPT ![p] = <<>>]
    /\ wrote' = [wrote EXCEPT ![p] = 0]
    /\ LET r == users[u]
       IN  IF lock_active(r)
           THEN return(p, u, <<FALSE, MsgIsLocked>>)
           ELSE /\ lock_row' = [lock_row EXCEPT ![p] =
                       IF r = NoRow THEN NoRow
                       ELSE [failed_attempts |-> r.failed_attempts,
                             locked_until |-> r.locked_until]]
                /\ pc' = [pc EXCEPT ![p] =
                       IF lock_expired(r) THEN "reset" ELSE "select"]
                /\ ret' = [ret EXCEPT ![p] = NoRet]
                /\ row' = [row EXCEPT ![p] = Unread]
                /\ UNCHANGED seen
    /\ UNCHANGED <<environ, pure, now, pepper, users, streak>>

\* A reset of an expired lock that leaves the failure counter
reset_row_keeps_count(r) ==
    IF r = NoRow THEN NoRow
    ELSE [r EXCEPT !.locked_until = Null]

\* The row after the UPDATE that resets an expired lock, lines 103-107
reset_row(r) ==
    IF r = NoRow THEN NoRow
    ELSE [r EXCEPT !.failed_attempts = 0, !.locked_until = Null]

\* The reset UPDATE without its WHERE clause
reset_update_all(table, u) == [v \in DOMAIN table |-> reset_row(table[v])]

\* UPDATE users SET failed_attempts = 0, locked_until = NULL
\* WHERE username = ?, lines 103-107
reset_update(table, u) == [table EXCEPT ![u] = reset_row(@)]

\* _is_account_locked: the UPDATE that resets an expired lock, lines 102-108
is_account_locked_reset(p) ==
    /\ pc[p] = "reset"
    /\ environ.storage = "ok"
    /\ users' = reset_update(users, username[p])
    /\ streak' = [streak EXCEPT ![username[p]] = 0]
    /\ wrote' = [wrote EXCEPT ![p] = @ + 1]
    /\ pc' = [pc EXCEPT ![p] = "select"]
    /\ UNCHANGED <<environ, pure, now, pepper, op, username, password,
                   lock_row, row, ret, hashed, seen>>

\* An unknown-user exit that says so
unknown_ret_reveals == <<FALSE, "User not found">>

\* The tuple returned for a username that has no row, line 158
unknown_ret == <<FALSE, MsgInvalid>>

\* An unknown-user exit without the dummy hash
unknown_hashed_none == <<>>

\* The bcrypt computations made for a username that has no row, line 157
unknown_hashed == <<gensalt_default_rounds>>

\* The SELECT of login and the unknown-user exit, lines 147-160
login_select(p) ==
    /\ pc[p] = "select"
    /\ environ.storage # "failing"
    /\ LET r == users[username[p]]
       IN  IF r = NoRow
           THEN /\ hashed' = [hashed EXCEPT ![p] = @ \o unknown_hashed]
                /\ return(p, username[p], unknown_ret)
           ELSE /\ row' = [row EXCEPT ![p] =
                             [password_hash |-> r.password_hash,
                              failed_attempts |-> r.failed_attempts]]
                /\ pc' = [pc EXCEPT ![p] = "verify"]
                /\ UNCHANGED <<lock_row, hashed, ret, seen>>
    /\ UNCHANGED <<environ, pure, now, pepper, users, op, username, password,
                   wrote, streak>>

\* A successful login that clears the lock and leaves the counter
success_row_keeps_count(r) ==
    IF r = NoRow THEN NoRow
    ELSE [r EXCEPT !.locked_until = Null]

\* A successful login that resets the counter and leaves the lock
success_row_keeps_lock(r) ==
    IF r = NoRow THEN NoRow
    ELSE [r EXCEPT !.failed_attempts = 0]

\* The row after the UPDATE of a successful login, lines 164-170
success_row(r) ==
    IF r = NoRow THEN NoRow
    ELSE [r EXCEPT !.failed_attempts = 0, !.locked_until = Null]

\* A failed login that locks one failure late
failed_row_late(r, new_failed_attempts) ==
    IF r = NoRow THEN NoRow
    ELSE IF new_failed_attempts > max_attempts
    THEN [r EXCEPT !.failed_attempts = new_failed_attempts,
                   !.locked_until = <<now + lockout_duration>>]
    ELSE [r EXCEPT !.failed_attempts = new_failed_attempts]

\* The row after the UPDATE of a failed login, lines 174-190
failed_row(r, new_failed_attempts) ==
    IF r = NoRow THEN NoRow
    ELSE IF new_failed_attempts >= max_attempts
    THEN [r EXCEPT !.failed_attempts = new_failed_attempts,
                   !.locked_until = <<now + lockout_duration>>]
    ELSE [r EXCEPT !.failed_attempts = new_failed_attempts]

\* A failed login that never reports the lock it has just applied
failed_ret_silent(new_failed_attempts) == <<FALSE, MsgInvalid>>

\* The tuple returned by a failed login, lines 183 and 191
failed_ret(new_failed_attempts) ==
    IF new_failed_attempts >= max_attempts
    THEN <<FALSE, MsgNowLocked>>
    ELSE <<FALSE, MsgInvalid>>

\* A verification that never comes back
verified_never(p) == NoOutcome

\* self._verify_password(password, stored_hash), line 162
verified(p) ==
    verify_password_outcome(environ.bcrypt, password[p], pepper,
                            row[p].password_hash)

\* Password accepted: lines 162-171
login_success(p) ==
    /\ pc[p] = "verify"
    /\ environ.storage = "ok"
    /\ verified(p) = [value |-> TRUE, raised |-> ""]
    /\ users' = [users EXCEPT ![username[p]] = success_row(@)]
    /\ streak' = [streak EXCEPT ![username[p]] = 0]
    /\ hashed' = [hashed EXCEPT ![p] = Append(@, row[p].password_hash.rounds)]
    /\ wrote' = [wrote EXCEPT ![p] = @ + 1]
    /\ return(p, username[p], <<TRUE, MsgLoginOk>>)
    /\ UNCHANGED <<environ, pure, now, pepper, op, username, password>>

\* Password rejected: lines 172-191
login_failed(p) ==
    /\ pc[p] = "verify"
    /\ environ.storage = "ok"
    /\ verified(p) = [value |-> FALSE, raised |-> ""]
    /\ LET new_failed_attempts == row[p].failed_attempts + 1
       IN  /\ users' = [users EXCEPT ![username[p]] =
                           failed_row(@, new_failed_attempts)]
           /\ return(p, username[p], failed_ret(new_failed_attempts))
    /\ streak' = [streak EXCEPT ![username[p]] = @ + 1]
    /\ hashed' = [hashed EXCEPT ![p] = Append(@, row[p].password_hash.rounds)]
    /\ wrote' = [wrote EXCEPT ![p] = @ + 1]
    /\ UNCHANGED <<environ, pure, now, pepper, op, username, password>>

\* A storage error reported as bad credentials
error_ret_invalid == <<FALSE, MsgInvalid>>

\* The tuple returned from the except clause of login, lines 193-194
error_ret == <<FALSE, MsgLoginError>>

\* login is called while the storage fails: the SELECT of _is_account_locked
\* raises, lines 141-143 and 88-93, then 193-194
login_error_call(p, u, pw) ==
    /\ Free(p)
    /\ environ.storage = "failing"
    /\ op' = [op EXCEPT ![p] = "login"]
    /\ username' = [username EXCEPT ![p] = u]
    /\ password' = [password EXCEPT ![p] = pw]
    /\ hashed' = [hashed EXCEPT ![p] = <<>>]
    /\ wrote' = [wrote EXCEPT ![p] = 0]
    /\ return(p, u, error_ret)
    /\ UNCHANGED <<environ, pure, now, pepper, users, streak>>

\* The next statement of a login call raises because the storage fails: the
\* UPDATE of lines 103-108, the SELECT of lines 148-153 (unless the storage
\* can still be read), or, after the verification, the UPDATE of lines
\* 164-190 with its commit; the transaction is rolled back and the except
\* clause returns
login_error(p) ==
    /\ \/ pc[p] \in {"reset", "select", "verify"} /\ environ.storage = "failing"
       \/ pc[p] \in {"reset", "verify"} /\ environ.storage = "readonly"
    /\ hashed' = [hashed EXCEPT ![p] =
                    IF pc[p] = "verify" /\ verified(p).raised = ""
                    THEN Append(@, row[p].password_hash.rounds)
                    ELSE @]
    /\ return(p, username[p], error_ret)
    /\ UNCHANGED <<environ, pure, now, pepper, users, op, username, password,
                   wrote, streak>>

\* The database file stops answering: every statement raises (unreadable,
\* locked) or only those that write (read-only, disk full)
storage_fails ==
    /\ environ.storage = "ok"
    /\ \E mode \in {"failing", "readonly"} :
          environ' = [environ EXCEPT !.storage = mode]
    /\ UNCHANGED <<pure, now, pepper, users, pc, op, username, password,
                   lock_row, row, ret, hashed, wrote, streak, seen>>

\* The database file answers again
storage_recovers ==
    /\ environ.storage # "ok"
    /\ environ' = [environ EXCEPT !.storage = "ok"]
    /\ UNCHANGED <<pure, now, pepper, users, pc, op, username, password,
                   lock_row, row, ret, hashed, wrote, streak, seen>>

\* The process ends between two calls and LoginSystem() is constructed again
\* over the same users.db: lines 15-22
restart ==
    /\ \A p \in Procs : Free(p)
    /\ \E token \in Tokens : pepper' = getenv_pepper(environ, token)
    /\ pc' = [p \in Procs |-> "idle"]
    /\ op' = [p \in Procs |-> "none"]
    /\ username' = [p \in Procs |-> <<>>]
    /\ password' = [p \in Procs |-> <<>>]
    /\ ret' = [p \in Procs |-> NoRet]
    /\ hashed' = [p \in Procs |-> <<>>]
    /\ wrote' = [p \in Procs |-> 0]
    /\ UNCHANGED <<environ, pure, now, users, lock_row, row, streak, seen>>

\* A direct call of _validate_password_strength, lines 61-84
validate_call ==
    /\ pure.fn = "validate" /\ pure.pc = "call"
    /\ pure' = [pure EXCEPT !.pc = "done",
                            !.ret = validate_password_strength(pure.password)]
    /\ UNCHANGED <<environ, now, pepper, users, pc, op, username, password,
                   lock_row, row, ret, hashed, wrote, streak, seen>>

\* A direct call of _hash_password, lines 41-49
hash_call ==
    /\ pure.fn = "hash" /\ pure.pc = "call"
    /\ IF hashpw_raises(environ.bcrypt, pure.password \o pepper) # ""
       THEN pure' = [pure EXCEPT !.pc = "raised"]
       ELSE \E salt \in Salts :
               pure' = [pure EXCEPT
                          !.pc = "stored",
                          !.stored = hash_password(pure.password, pepper, salt)]
    /\ UNCHANGED <<environ, now, pepper, users, pc, op, username, password,
                   lock_row, row, ret, hashed, wrote, streak, seen>>

\* A direct call of _verify_password, lines 51-59
verify_call ==
    /\ pure.fn \in {"hash", "verify"} /\ pure.pc = "stored"
    /\ pure' = [pure EXCEPT
                  !.pc = "done",
                  !.ret = verify_password_outcome(environ.bcrypt, pure.attempt,
                                                  pepper, pure.stored)]
    /\ UNCHANGED <<environ, now, pepper, users, pc, op, username, password,
                   lock_row, row, ret, hashed, wrote, streak, seen>>

\* The clock advances
Tick ==
    /\ now + TickMinutes <= MaxTime
    /\ now' = now + TickMinutes
    /\ UNCHANGED <<environ, pure, pepper, users, pc, op, username, password,
                   lock_row, row, ret, hashed, wrote, streak, seen>>

-----------------------------------------------------------------------------
(* Specifications *)

\* Callers run concurrently, one SQL statement at a time
Next ==
    \/ \E p \in Procs, u \in RegisterUsernames, pw \in RegisterPasswords :
          register(p, u, pw)
    \/ \E p \in Procs, u \in Usernames, pw \in LoginPasswords : login(p, u, pw)
    \/ \E p \in Procs : is_account_locked_reset(p)
    \/ \E p \in Procs : login_select(p)
    \/ \E p \in Procs : login_success(p)
    \/ \E p \in Procs : login_failed(p)
    \/ Tick

Spec == Init /\ [][Next]_vars

\* The statements of a login call that caller p has begun
proceed(p) ==
    \/ is_account_locked_reset(p)
    \/ login_select(p)
    \/ login_success(p)
    \/ login_failed(p)

\* Concurrent callers that all work on the same account
NextContend ==
    \/ \E p \in Procs : register(p, Alice, PwStrong)
    \/ \E p \in Procs, pw \in LoginPasswords : login(p, Alice, pw)
    \/ \E p \in Procs : proceed(p)
    \/ Tick

\* ... each of which keeps running the call it is in
FairSpec ==
    /\ Init
    /\ [][NextContend]_vars
    /\ \A p \in Procs : WF_vars(proceed(p))

\* One caller, one call at a time, as in the menu loop of main()
NextSeq ==
    \/ \E p \in SeqProcs, u \in RegisterUsernames, pw \in RegisterPasswords :
          register(p, u, pw)
    \/ \E p \in SeqProcs, u \in Usernames, pw \in LoginPasswords :
          login(p, u, pw)
    \/ \E p \in SeqProcs : is_account_locked_reset(p)
    \/ \E p \in SeqProcs : login_select(p)
    \/ \E p \in SeqProcs : login_success(p)
    \/ \E p \in SeqProcs : login_failed(p)
    \/ Tick

SeqSpec == Init /\ [][NextSeq]_vars

\* One caller, with the log of returned variants
LogSpec == InitLog /\ [][NextSeq]_vars

\* One caller, any installation, and the process may be restarted
NextRestart ==
    \/ \E p \in SeqProcs, u \in RegisterUsernames, pw \in RegisterPasswords :
          register(p, u, pw)
    \/ \E p \in SeqProcs, u \in Usernames, pw \in LoginPasswords :
          login(p, u, pw)
    \/ \E p \in SeqProcs : is_account_locked_reset(p)
    \/ \E p \in SeqProcs : login_select(p)
    \/ \E p \in SeqProcs : login_success(p)
    \/ \E p \in SeqProcs : login_failed(p)
    \/ Tick
    \/ restart

RestartSpec == InitRestart /\ [][NextRestart]_vars

\* One caller registering, with usernames and passwords at the edges
NextReg ==
    \E p \in SeqProcs, u \in RegUsernames, pw \in RegPasswords :
        register(p, u, pw)

RegSpec == InitReg /\ [][NextReg]_vars

\* One caller, and the storage may fail and recover at any moment
NextFail ==
    \/ \E p \in SeqProcs, u \in RegisterUsernames, pw \in RegisterPasswords :
          register(p, u, pw)
    \/ \E p \in SeqProcs, u \in Usernames, pw \in LoginPasswords :
          login(p, u, pw)
    \/ \E p \in SeqProcs, u \in Usernames, pw \in LoginPasswords :
          login_error_call(p, u, pw)
    \/ \E p \in SeqProcs : is_account_locked_reset(p)
    \/ \E p \in SeqProcs : login_select(p)
    \/ \E p \in SeqProcs : login_success(p)
    \/ \E p \in SeqProcs : login_failed(p)
    \/ \E p \in SeqProcs : login_error(p)
    \/ storage_fails
    \/ storage_recovers
    \/ Tick

FailSpec == Init /\ [][NextFail]_vars

\* Two callers, each with a username of its own
CallerUsername == [p \in Procs |-> IF p = "c1" THEN Alice ELSE Bob]

NextFrame ==
    \/ \E p \in Procs : register(p, CallerUsername[p], PwStrong)
    \/ \E p \in Procs, pw \in LoginPasswords : login(p, CallerUsername[p], pw)
    \/ \E p \in Procs : is_account_locked_reset(p)
    \/ \E p \in Procs : login_select(p)
    \/ \E p \in Procs : login_success(p)
    \/ \E p \in Procs : login_failed(p)
    \/ Tick

FrameSpec == Init /\ [][NextFrame]_vars

\* _validate_password_strength called on its own
NextValidate == validate_call

ValidateSpec == InitValidate /\ [][NextValidate]_vars

\* _hash_password and _verify_password called on their own
NextHash ==
    \/ hash_call
    \/ verify_call

HashSpec == InitHash /\ [][NextHash]_vars

-----------------------------------------------------------------------------
(* Properties *)

AllUsernames == Usernames \cup RegisterUsernames

\* The account of u is Locked and the lockout window has not elapsed
Locked(u) ==
    /\ users[u] # NoRow
    /\ users[u].locked_until # Null
    /\ now < users[u].locked_until[1]

\* This step is caller p making a login call on u
LoginCalled(p, u) ==
    /\ Free(p)
    /\ op'[p] = "login"
    /\ username'[p] = u
    /\ <<pc[p], op[p], username[p], password[p], ret[p], hashed[p], wrote[p]>>
         # <<pc'[p], op'[p], username'[p], password'[p], ret'[p], hashed'[p],
             wrote'[p]>>

\* This step is the end of a login call of p that got as far as verification
Verified(p) == pc[p] = "verify" /\ pc'[p] = "done"

\* This step is the end of a login call of p that found no row
UnknownUser(p) == pc[p] = "select" /\ pc'[p] = "done"

\* The password of the call p is in is the one the account was registered with
CorrectPassword(p) ==
    /\ users[username[p]] # NoRow
    /\ users[username[p]].password_hash.key = password[p] \o pepper

\* C1: one caller. The failure that brings the number of consecutive failed
\* logins (since registration, the last success or the last expiry) to
\* max_attempts locks the account until now + lockout_duration; every
\* earlier failure leaves it Active with failed_attempts equal to the number
\* of failures so far.
C1_LockAtMaxAttempts ==
    [][\A u \in Usernames :
          (users[u] # NoRow /\ streak'[u] = streak[u] + 1) =>
             IF streak'[u] < max_attempts
             THEN /\ users'[u].failed_attempts = streak'[u]
                  /\ users'[u].locked_until = Null
             ELSE /\ streak'[u] = max_attempts
                  /\ users'[u].failed_attempts = max_attempts
                  /\ users'[u].locked_until = <<now + lockout_duration>>]_vars

C1_Witness ==
    \E u \in Usernames :
        /\ users[u] # NoRow
        /\ streak[u] = max_attempts
        /\ users[u].failed_attempts = max_attempts
        /\ users[u].locked_until = <<now + lockout_duration>>

\* C2: a login call made while the account is Locked and the window has not
\* elapsed returns AccountLocked at once, with any password: it has computed
\* no hash, written nothing, and the table is as it was.
C2_LockedIsDenied ==
    [][\A p \in Procs, u \in Usernames :
          (LoginCalled(p, u) /\ Locked(u)) =>
             /\ pc'[p] = "done"
             /\ variant(ret'[p]) = "AccountLocked"
             /\ hashed'[p] = <<>>
             /\ wrote'[p] = 0
             /\ users' = users]_vars

C2_Witness ==
    \E p \in Procs :
        /\ pc[p] = "done" /\ op[p] = "login"
        /\ Locked(username[p])
        /\ CorrectPassword(p)
        /\ variant(ret[p]) = "AccountLocked"
        /\ hashed[p] = <<>> /\ wrote[p] = 0

\* C3: one caller. The failed login that is the max_attempts-th in a row
\* returns AccountLocked; a login made before locked_until returns
\* AccountLocked; a login with the correct password that found the lock
\* expired returns Ok and leaves failed_attempts = 0, locked_until unset.
C3_LockoutScenario ==
    [][\A p \in SeqProcs :
          /\ (Verified(p) /\ ~CorrectPassword(p)
                 /\ streak[username[p]] = max_attempts - 1)
                => variant(ret'[p]) = "AccountLocked"
          /\ \A u \in Usernames :
                (LoginCalled(p, u) /\ Locked(u))
                   => variant(ret'[p]) = "AccountLocked"
          /\ (Verified(p) /\ CorrectPassword(p)
                 /\ lock_row[p] # NoRow /\ lock_row[p].locked_until # Null)
                => /\ variant(ret'[p]) = "Ok"
                   /\ users'[username[p]].failed_attempts = 0
                   /\ users'[username[p]].locked_until = Null]_vars

\* The caller has just logged in with two UPDATEs, the reset of an expired
\* lock and the reset of a successful login
C3_Witness ==
    \E p \in SeqProcs :
        /\ pc[p] = "done" /\ op[p] = "login"
        /\ variant(ret[p]) = "Ok"
        /\ wrote[p] = 2
        /\ users[username[p]].failed_attempts = 0
        /\ users[username[p]].locked_until = Null

\* C4: concurrent callers. failed_attempts equals the number of failed
\* logins admitted since the last reset: no failure is lost.
C4_NoLostUpdate ==
    \A u \in Usernames :
        users[u] # NoRow => users[u].failed_attempts = streak[u]

\* C5: concurrent callers. 0 <= failed_attempts <= max_attempts.
C5_AttemptsInRange ==
    \A u \in AllUsernames :
        users[u] # NoRow =>
            /\ 0 <= users[u].failed_attempts
            /\ users[u].failed_attempts <= max_attempts

\* C6: concurrent callers. locked_until set implies
\* failed_attempts >= max_attempts.
C6_LockedImpliesMaxAttempts ==
    \A u \in AllUsernames :
        (users[u] # NoRow /\ users[u].locked_until # Null) =>
            users[u].failed_attempts >= max_attempts

\* C7: a login call that returns Ok leaves failed_attempts = 0 and
\* locked_until unset, whatever they were before.
C7_OkClearsLock ==
    [][\A p \in Procs :
          (Verified(p) /\ variant(ret'[p]) = "Ok") =>
             /\ users'[username[p]].failed_attempts = 0
             /\ users'[username[p]].locked_until = Null]_vars

\* One caller has just logged in with a single UPDATE, the other has just
\* locked the same account, no lock can have expired yet, and the lock is gone
C7_Witness ==
    \E p \in Procs, q \in Procs :
        /\ p # q /\ username[p] = username[q]
        /\ pc[p] = "done" /\ op[p] = "login" /\ variant(ret[p]) = "Ok"
        /\ wrote[p] = 1
        /\ pc[q] = "done" /\ op[q] = "login" /\ ret[q] = <<FALSE, MsgNowLocked>>
        /\ now < lockout_duration
        /\ users[username[p]].failed_attempts = 0
        /\ users[username[p]].locked_until = Null

\* C8: one caller. As long as no login on a registered username has
\* succeeded, the variants returned for it are those returned for a username
\* that is not registered.
C8_SameVariants ==
    \A u \in Usernames, v \in Usernames :
        (/\ users[u] # NoRow /\ users[v] = NoRow
         /\ \A i \in 1..Len(seen[u]) : seen[u][i] # "Ok"
         /\ Len(seen[u]) = Len(seen[v]))
        => seen[u] = seen[v]

\* C9: a login call that finds no row for its username returns
\* InvalidCredentials, as does a failed login whose count stays below
\* max_attempts, and neither its last step nor any earlier step of the call
\* has changed the table.
C9_UnknownUser ==
    [][\A p \in Procs :
          /\ UnknownUser(p) =>
                /\ variant(ret'[p]) = "InvalidCredentials"
                /\ wrote'[p] = 0
                /\ users' = users
          /\ (Verified(p) /\ ~CorrectPassword(p)
                 /\ row[p].failed_attempts + 1 < max_attempts)
                => variant(ret'[p]) = "InvalidCredentials"]_vars

C9_Witness ==
    \E p \in Procs :
        /\ pc[p] = "done" /\ op[p] = "login"
        /\ users[username[p]] = NoRow
        /\ variant(ret[p]) = "InvalidCredentials"
        /\ wrote[p] = 0

HashedFrom(h, pw) ==
    /\ Len(h.key) >= Len(pw)
    /\ SubSeq(h.key, 1, Len(pw)) = pw

\* C11: one caller, restarts. A login that reaches verification with the
\* password the account was registered with returns Ok, also when the
\* process has been restarted since the registration, with PASSWORD_PEPPER
\* set or not.
C11_PepperSurvivesRestart ==
    [][\A p \in SeqProcs :
          (Verified(p)
             /\ HashedFrom(users[username[p]].password_hash, password[p]))
          => variant(ret'[p]) = "Ok"]_vars

\* This step is caller p making a register call on u
RegisterCalled(p, u) ==
    /\ Free(p)
    /\ op'[p] = "register"
    /\ username'[p] = u
    /\ <<pc[p], op[p], username[p], password[p], ret[p], hashed[p], wrote[p]>>
         # <<pc'[p], op'[p], username'[p], password'[p], ret'[p], hashed'[p],
             wrote'[p]>>

\* C12, as stated: a register call with a valid username that is already in
\* the store fails with "Username already exists", with every password.
C12_UniquenessBeforeStrength ==
    [][\A p \in SeqProcs, u \in RegisterUsernames :
          (RegisterCalled(p, u) /\ users[u] # NoRow
             /\ Len(u) >= 3 /\ username_match(u))
          => ret'[p] = <<FALSE, MsgExists>>]_vars

\* C12, as the code has it: the password strength is checked before the
\* INSERT meets the UNIQUE constraint. A register call with a valid username
\* that is already in the store fails with the reason of the strength check
\* if the password is weak, with "Username already exists" if it is strong,
\* and leaves the table as it was.
C12_StrengthBeforeUniqueness ==
    [][\A p \in SeqProcs, u \in RegisterUsernames :
          (RegisterCalled(p, u) /\ users[u] # NoRow
             /\ Len(u) >= 3 /\ username_match(u))
          => /\ users' = users
             /\ ret'[p] = IF validate_password_strength(password'[p])[1]
                          THEN <<FALSE, MsgExists>>
                          ELSE validate_password_strength(password'[p])]_vars

\* A register call on a registered username has been refused for its password
C12_Witness ==
    \E p \in SeqProcs :
        /\ pc[p] = "done" /\ op[p] = "register"
        /\ users[username[p]] # NoRow
        /\ ret[p] = <<FALSE, MsgTooShort>>
        /\ wrote[p] = 0

\* C13: a register call with a username shorter than 3 or longer than 64
\* fails with an InvalidUsername message and stores nothing, so that every
\* username in the table has a length between 3 and 64.
C13_UsernameLength ==
    [][\A p \in SeqProcs, u \in RegUsernames :
          (RegisterCalled(p, u) /\ (Len(u) < 3 \/ Len(u) > 64))
          => /\ ret'[p] \in {<<FALSE, MsgUserShort>>, <<FALSE, MsgUserChars>>}
             /\ users' = users
             /\ \A v \in DOMAIN users :
                   users'[v] # NoRow => (Len(v) >= 3 /\ Len(v) <= 64)]_vars

\* C14: one caller. A register call that succeeds inserts one row, with
\* failed_attempts = 0 and locked_until NULL, and changes no other row; a
\* login on that username made right after it is admitted to verification,
\* and a login that reaches verification with the password of the
\* registration returns Ok.
C14_RegisterThenLogin ==
    [][\A p \in SeqProcs :
          /\ \A u \in RegisterUsernames :
                (RegisterCalled(p, u) /\ ret'[p][1])
                => /\ users[u] = NoRow
                   /\ users'[u] # NoRow
                   /\ users'[u].failed_attempts = 0
                   /\ users'[u].locked_until = Null
                   /\ \A v \in DOMAIN users : v # u => users'[v] = users[v]
          /\ \A u \in Usernames :
                (LoginCalled(p, u) /\ op[p] = "register" /\ username[p] = u
                   /\ ret[p][1])
                => pc'[p] = "select"
          /\ (Verified(p)
                /\ HashedFrom(users[username[p]].password_hash, password[p]))
             => variant(ret'[p]) = "Ok"]_vars

\* The caller has logged in at the time of the registration, with one UPDATE
C14_Witness ==
    \E p \in SeqProcs :
        /\ pc[p] = "done" /\ op[p] = "login" /\ variant(ret[p]) = "Ok"
        /\ now = 0 /\ wrote[p] = 1
        /\ HashedFrom(users[username[p]].password_hash, password[p])
        /\ users[username[p]].failed_attempts = 0
        /\ users[username[p]].locked_until = Null

\* The reasons of the strength check, in the order of the claim
StrengthReasons == <<MsgTooShort, MsgNoUpper, MsgNoLower, MsgNoDigit,
                     MsgNoSpecial, MsgBanned>>

\* The password pw fails the i-th check
FailsCheck(pw, i) ==
    CASE i = 1 -> Len(pw) < min_password_length
      [] i = 2 -> \A k \in 1..Len(pw) : pw[k] \notin UpperChars
      [] i = 3 -> \A k \in 1..Len(pw) : pw[k] \notin LowerChars
      [] i = 4 -> \A k \in 1..Len(pw) : pw[k] \notin DigitChars
      [] i = 5 -> \A k \in 1..Len(pw) : pw[k] \notin SpecialChars
      [] i = 6 -> \E pat \in BannedPatterns : contains(lower(pw), pat)

\* C15: _validate_password_strength returns the reason of the earliest check
\* that the password fails, in the order TooShort, MissingUppercase,
\* MissingLowercase, MissingDigit, MissingSpecial, ContainsBannedPattern (a
\* case-insensitive substring match), and accepts the password only if it
\* fails none.
C15_FirstFailingReason ==
    (pure.fn = "validate" /\ pure.pc = "done") =>
        LET failing == {i \in 1..6 : FailsCheck(pure.password, i)}
        IN  IF failing = {}
            THEN pure.ret = <<TRUE, MsgStrong>>
            ELSE \E i \in failing :
                    /\ \A j \in failing : i <= j
                    /\ pure.ret = <<FALSE, StrengthReasons[i]>>

\* A password was refused for a banned word that it holds only in another
\* letter case
C15_Witness ==
    /\ pure.fn = "validate" /\ pure.pc = "done"
    /\ pure.ret = <<FALSE, MsgBanned>>
    /\ \A pat \in BannedPatterns : ~contains(pure.password, pat)

\* The password pw holds a character of every required class
AllClasses(pw) ==
    \A class \in {UpperChars, LowerChars, DigitChars, SpecialChars} :
        \E k \in 1..Len(pw) : pw[k] \in class

\* C16: with min_password_length = 12, a register call with a valid username
\* and a password of 11 characters holding every required class fails with
\* the TooShort reason and creates no account; a password of exactly 12
\* characters is not refused as too short.
C16_MinimumLength ==
    [][\A p \in SeqProcs, u \in RegUsernames :
          (RegisterCalled(p, u) /\ Len(u) >= 3 /\ username_match(u)
             /\ min_password_length = 12)
          => /\ (Len(password'[p]) = 11 /\ AllClasses(password'[p]))
                => /\ ret'[p] = <<FALSE, MsgTooShort>>
                   /\ users' = users
             /\ Len(password'[p]) = 12
                => ret'[p] # <<FALSE, MsgTooShort>>]_vars

\* A register call for a new username has been refused for a password of 11
\* characters, and an account with a password of 12 characters exists
C16_Witness ==
    \E p \in SeqProcs :
        /\ pc[p] = "done" /\ op[p] = "register"
        /\ Len(username[p]) >= 3 /\ username_match(username[p])
        /\ Len(password[p]) = 11 /\ AllClasses(password[p])
        /\ ret[p] = <<FALSE, MsgTooShort>>
        /\ users[username[p]] = NoRow
        /\ \E v \in DOMAIN users :
              /\ users[v] # NoRow
              /\ Len(users[v].password_hash.key) = 12 + Len(pepper)

\* C17: whenever _hash_password returns a hash for a password, under the
\* pepper of the process, _verify_password called with the same password,
\* the same pepper and that hash returns True.
C17_RoundTrip ==
    (pure.fn = "hash" /\ pure.pc = "done" /\ pure.attempt = pure.password)
    => pure.ret = [value |-> TRUE, raised |-> ""]

\* A round trip has been made on an input longer than bcrypt reads
C17_Witness ==
    /\ pure.fn = "hash" /\ pure.pc = "done" /\ pure.attempt = pure.password
    /\ Len(pure.password \o pepper) > bcrypt_max_bytes
    /\ pure.ret = [value |-> TRUE, raised |-> ""]

\* C18: _verify_password called with a password other than the one the
\* hash was issued for returns False, for passwords of every length.
C18_OtherPasswordFails ==
    (pure.fn = "hash" /\ pure.pc = "done" /\ pure.attempt # pure.password)
    => pure.ret = [value |-> FALSE, raised |-> ""]

\* C19: _verify_password called on a stored value that is no bcrypt hash
\* (bytes that do not parse, a hash cut short, a value that is not bytes)
\* returns False and raises nothing, for every password.
C19_MalformedIsFalse ==
    (pure.fn = "verify" /\ pure.pc = "done")
    => pure.ret = [value |-> FALSE, raised |-> ""]

\* This step is a statement of a login call of p that reads the table
LoginReads(p) ==
    \/ \E u \in Usernames : LoginCalled(p, u)
    \/ pc[p] = "select" /\ pc'[p] # pc[p]

\* This step is a statement of a login call of p that writes to the table
LoginWrites(p) == pc[p] \in {"reset", "verify"} /\ pc'[p] # pc[p]

\* C20: one caller. A statement of a login call that meets a storage failure
\* (any statement while the storage fails altogether, a writing statement
\* while it is read-only) ends the call with the SystemError outcome, whether
\* the username has a row or not, and leaves the table as it was; and after
\* every step a row has failed_attempts at max_attempts exactly when it has
\* locked_until set.
C20_StorageFailure ==
    [][\A p \in SeqProcs :
          /\ (\/ environ.storage = "failing" /\ (LoginReads(p) \/ LoginWrites(p))
              \/ environ.storage = "readonly" /\ LoginWrites(p))
             => /\ pc'[p] = "done"
                /\ variant(ret'[p]) = "SystemError"
                /\ ret'[p] = <<FALSE, MsgLoginError>>
                /\ users' = users
          /\ \A u \in Usernames :
                users'[u] # NoRow
                => (users'[u].failed_attempts >= max_attempts
                       <=> users'[u].locked_until # Null)]_vars

\* A login on a registered username with failures on record got through the
\* verification and then met the storage failure
C20_Witness ==
    \E p \in SeqProcs :
        /\ environ.storage = "readonly"
        /\ pc[p] = "done" /\ op[p] = "login"
        /\ ret[p] = <<FALSE, MsgLoginError>>
        /\ users[username[p]] # NoRow
        /\ users[username[p]].failed_attempts = max_attempts - 1
        /\ users[username[p]].locked_until = Null
        /\ ~CorrectPassword(p)
        /\ hashed[p] = <<hash_rounds>>

\* This step is a step of a call of caller p
Acted(p) ==
    <<pc[p], op[p], username[p], password[p], ret[p], hashed[p], wrote[p],
      lock_row[p], row[p]>>
    # <<pc'[p], op'[p], username'[p], password'[p], ret'[p], hashed'[p],
        wrote'[p], lock_row'[p], row'[p]>>

\* C21: two callers, each on a username of its own. A step changes the row
\* of a username only if it is a step of a call on that username, and the
\* row of each username is what the calls on it alone make of it:
\* failed_attempts is the number of failed logins on that username since its
\* last reset, whatever the calls on the other username do in between.
C21_OtherRowsUntouched ==
    [][\A v \in AllUsernames :
          /\ users'[v] # users[v]
             => \E p \in Procs : Acted(p) /\ username'[p] = v
          /\ users'[v] # NoRow
             => /\ users'[v].failed_attempts = streak'[v]
                /\ \E salt \in Salts :
                      users'[v].password_hash
                         = hash_password(PwStrong, pepper, salt)]_vars

\* One account has just been locked by its caller while the other stands at
\* one failure recorded by the other caller
C21_Witness ==
    \E p \in Procs, q \in Procs :
        /\ username[p] # username[q]
        /\ pc[p] = "done" /\ ret[p] = <<FALSE, MsgNowLocked>>
        /\ pc[q] = "done" /\ op[q] = "login" /\ variant(ret[q]) = "InvalidCredentials"
        /\ users[username[p]] # NoRow /\ users[username[q]] # NoRow
        /\ users[username[p]].failed_attempts = max_attempts
        /\ users[username[p]].locked_until # Null
        /\ users[username[q]].failed_attempts = 1
        /\ users[username[q]].locked_until = Null

\* C22: one caller, the storage may fail. A row once in the table stays there
\* with the password_hash it was inserted with; a register call that fails
\* (bad username, username taken, weak password, system error) leaves the
\* table as it was; and a row appears only in a step of a register call on
\* its username that returns success.
C22_CreatedOnce ==
    [][\A u \in AllUsernames :
          /\ users[u] # NoRow
             => /\ users'[u] # NoRow
                /\ users'[u].password_hash = users[u].password_hash
          /\ \A p \in SeqProcs :
                (RegisterCalled(p, u) /\ ~ret'[p][1]) => users' = users
          /\ (users[u] = NoRow /\ users'[u] # NoRow)
             => \E p \in SeqProcs : RegisterCalled(p, u) /\ ret'[p][1]]_vars

\* A register call with another password on a registered username has been
\* refused and the account still has the hash of its first password
C22_Witness ==
    \E p \in SeqProcs :
        /\ pc[p] = "done" /\ op[p] = "register"
        /\ ret[p] = <<FALSE, MsgExists>>
        /\ users[username[p]] # NoRow
        /\ ~HashedFrom(users[username[p]].password_hash, password[p])

\* The lock of the account of u has run out: now >= locked_until
Expired(u) ==
    /\ users[u] # NoRow
    /\ users[u].locked_until # Null
    /\ now >= users[u].locked_until[1]

\* C23: one caller. A login call on an account whose lock has run out
\* (now >= locked_until) is admitted and resets the row to failed_attempts =
\* 0, locked_until unset; if that call has a wrong password the row is left
\* with failed_attempts = 1 and locked_until unset and the call returns
\* InvalidCredentials; and the account is locked again only by the
\* max_attempts-th failure counted from that reset.
C23_ExpiryResetsCounter ==
    [][\A p \in SeqProcs :
          /\ \A u \in Usernames :
                (LoginCalled(p, u) /\ Expired(u)) => pc'[p] = "reset"
          /\ pc[p] = "reset" /\ pc'[p] = "select"
             => /\ users'[username[p]].failed_attempts = 0
                /\ users'[username[p]].locked_until = Null
          /\ (Verified(p) /\ ~CorrectPassword(p) /\ wrote[p] = 1)
             => /\ users'[username[p]].failed_attempts = 1
                /\ users'[username[p]].locked_until = Null
                /\ variant(ret'[p]) = "InvalidCredentials"
          /\ \A u \in Usernames :
                (users[u] # NoRow /\ users[u].locked_until = Null
                   /\ users'[u].locked_until # Null)
                => /\ streak'[u] = max_attempts
                   /\ users'[u].failed_attempts = max_attempts]_vars

\* The caller has failed a login on an account whose lock had run out: two
\* UPDATEs, and the row stands at one failure
C23_Witness ==
    \E p \in SeqProcs :
        /\ pc[p] = "done" /\ op[p] = "login"
        /\ variant(ret[p]) = "InvalidCredentials"
        /\ wrote[p] = 2
        /\ now >= lockout_duration
        /\ users[username[p]].failed_attempts = 1
        /\ users[username[p]].locked_until = Null

\* C24: one caller. An account becomes locked only in the step of a
\* wrong-password login that finds max_attempts - 1 failures on record, all
\* made since the last successful login; a wrong-password login that finds
\* fewer adds one and leaves the account unlocked; a successful login puts
\* the count back to 0.
C24_ConsecutiveFailures ==
    [][\A p \in SeqProcs :
          /\ \A u \in Usernames :
                (users[u] # NoRow /\ users[u].locked_until = Null
                   /\ users'[u] # NoRow /\ users'[u].locked_until # Null)
                => /\ Verified(p) /\ username[p] = u /\ ~CorrectPassword(p)
                   /\ users[u].failed_attempts = max_attempts - 1
                   /\ streak[u] = max_attempts - 1
          /\ (Verified(p) /\ ~CorrectPassword(p)
                /\ users[username[p]].failed_attempts < max_attempts - 1)
             => /\ users'[username[p]].failed_attempts
                     = users[username[p]].failed_attempts + 1
                /\ users'[username[p]].locked_until = Null
          /\ (Verified(p) /\ CorrectPassword(p))
             => /\ users'[username[p]].failed_attempts = 0
                /\ streak'[username[p]] = 0]_vars

\* The responses for an account were two failures and a success, and the
\* failure that followed is on record as the first
C24_Witness ==
    \E p \in SeqProcs :
        /\ pc[p] = "done" /\ op[p] = "login"
        /\ Len(seen[username[p]]) >= 3
        /\ SubSeq(seen[username[p]], 1, 3)
              = <<"InvalidCredentials", "InvalidCredentials", "Ok">>
        /\ variant(ret[p]) = "InvalidCredentials"
        /\ users[username[p]].failed_attempts = 1
        /\ users[username[p]].locked_until = Null
        /\ now = 0

\* C25: concurrent callers. A login call whose last step finds the account
\* Locked, with now < locked_until, does not return Ok.
C25_NoOkWhileLocked ==
    [][\A p \in Procs :
          (Verified(p) /\ Locked(username[p]))
          => variant(ret'[p]) # "Ok"]_vars

\* C26: concurrent callers. The reset UPDATE of the lockout check leaves a
\* lock alone whose locked_until lies in the future.
C26_ResetSparesNewLock ==
    [][\A p \in Procs :
          (pc[p] = "reset" /\ pc'[p] = "select" /\ Locked(username[p]))
          => users'[username[p]] = users[username[p]]]_vars

\* C27: concurrent callers. No more than max_attempts wrong-password
\* verifications are made on an account between two resets of it.
C27_BoundedGuessing ==
    \A u \in Usernames : streak[u] <= max_attempts

\* C28: one caller. A lock ends lockout_duration after the failure that set
\* it: no step moves a locked_until that is set to another time, a login
\* call made while the account is Locked changes nothing, locked_until is
\* never further away than lockout_duration, and a login call made on an
\* account that is not Locked (now >= locked_until) is admitted.
C28_LockNotProlonged ==
    [][\A p \in SeqProcs, u \in Usernames :
          /\ (users[u] # NoRow /\ users[u].locked_until # Null
                /\ users'[u].locked_until # Null)
             => users'[u].locked_until = users[u].locked_until
          /\ (LoginCalled(p, u) /\ Locked(u))
             => users' = users
          /\ (users'[u] # NoRow /\ users'[u].locked_until # Null)
             => users'[u].locked_until[1] <= now' + lockout_duration
          /\ (LoginCalled(p, u) /\ ~Locked(u))
             => /\ pc'[p] \in {"reset", "select"}
                /\ ret'[p] = NoRet]_vars

\* A login call has been admitted at the very minute the lock ran out
C28_Witness ==
    \E p \in SeqProcs :
        /\ pc[p] = "reset" /\ op[p] = "login"
        /\ lock_row[p] # NoRow
        /\ lock_row[p].locked_until = <<now>>
        /\ lock_row[p].failed_attempts = max_attempts

\* Caller p is in, or back from, a register call with a valid username and a
\* strong password
StrongRegister(p) ==
    /\ op[p] = "register" /\ pc[p] = "done"
    /\ username_ok[username[p]]
    /\ password_strength[password[p]][1]

\* C29: concurrent callers. Of the register calls made for a valid username
\* with strong passwords, the one whose INSERT comes first returns success
\* and every other returns "Username already exists": two callers back from
\* such calls on the same username have not both succeeded, the table holds
\* the row of that username, and a caller that succeeded finds its own
\* password in the password_hash.
C29_OneRegisterWins ==
    \A p \in Procs, q \in Procs :
        (p # q /\ StrongRegister(p) /\ StrongRegister(q)
           /\ username[p] = username[q])
        => /\ ~(ret[p][1] /\ ret[q][1])
           /\ ret[q] \in {<<TRUE, MsgRegistered>>, <<FALSE, MsgExists>>}
           /\ users[username[p]] # NoRow
           /\ ret[p][1]
              => HashedFrom(users[username[p]].password_hash, password[p])

\* Two callers have registered the same username with different passwords:
\* one succeeded, the other was told the username exists
C29_Witness ==
    \E p \in Procs, q \in Procs :
        /\ p # q /\ StrongRegister(p) /\ StrongRegister(q)
        /\ username[p] = username[q] /\ password[p] # password[q]
        /\ ret[p] = <<TRUE, MsgRegistered>>
        /\ ret[q] = <<FALSE, MsgExists>>
        /\ HashedFrom(users[username[p]].password_hash, password[p])
        /\ ~HashedFrom(users[username[p]].password_hash, password[q])

\* The tuples a call may return
Outcomes ==
    {<<TRUE, MsgRegistered>>, <<TRUE, MsgLoginOk>>,
     <<FALSE, MsgUserShort>>, <<FALSE, MsgUserChars>>, <<FALSE, MsgExists>>,
     <<FALSE, MsgTooShort>>, <<FALSE, MsgNoUpper>>, <<FALSE, MsgNoLower>>,
     <<FALSE, MsgNoDigit>>, <<FALSE, MsgNoSpecial>>, <<FALSE, MsgBanned>>,
     <<FALSE, MsgInvalid>>, <<FALSE, MsgIsLocked>>, <<FALSE, MsgNowLocked>>,
     <<FALSE, MsgLoginError>>, <<FALSE, MsgRegisterError>>}

\* C30: concurrent callers, each running on. A call that has begun comes to
\* its end, whatever the other caller does to the same row in between, and a
\* call that has ended has returned one of the outcomes.
C30_CallsReturn ==
    \A p \in Procs :
        /\ [](pc[p] = "done" => ret[p] \in Outcomes)
        /\ (pc[p] \in {"reset", "select", "verify"}) ~> (pc[p] = "done")

\* Two callers in the same row at once have both come back, each having
\* locked the account
C30_Witness ==
    \E p \in Procs, q \in Procs :
        /\ p # q /\ username[p] = username[q]
        /\ pc[p] = "done" /\ op[p] = "login" /\ ret[p] = <<FALSE, MsgNowLocked>>
        /\ pc[q] = "done" /\ op[q] = "login" /\ ret[q] = <<FALSE, MsgNowLocked>>
        /\ wrote[p] = 1 /\ wrote[q] = 1

====
